---- MODULE Spec2Model ----
(***************************************************************************)
(* A model of the BYOC ingestor of src/src/collections.py (class Ingestor):*)
(* collection creation, recursive listing of an object store, derivation   *)
(* of tile paths and sensing times from file paths, reconciliation of the  *)
(* built tiles against the catalog, and the ingestion status report.       *)
(*                                                                         *)
(* Python strings are modelled as sequences of one-character strings, so   *)
(* that str.split, str.join, str.endswith, slicing and strptime are        *)
(* computed, not assumed.                                                  *)
(***************************************************************************)
EXTENDS Integers, Sequences, FiniteSets, TLC

(***************************************************************************)
(* Bounds of the model.                                                    *)
(***************************************************************************)
\* Objects per page returned by the remote paginated lister.
PageSize ==
    2

\* Largest number of tiles a collection of the catalog holds in the model.
MaxTiles ==
    2

\* Largest number of collections created in one behaviour.
MaxCollections ==
    1

(***************************************************************************)
(* Python string and list primitives.                                      *)
(***************************************************************************)
None ==
    "None"

\* seq[i] with Python's index rule: 0-based, negative counts from the end.
InRange(seq, i) ==
    /\ i < Len(seq)
    /\ i >= 0 - Len(seq)

PyIndex(seq, i) ==
    IF i >= 0 THEN seq[i + 1] ELSE seq[Len(seq) + i + 1]

\* seq with seq[i] = v assigned, Python's index rule.
PySetItem(seq, i, v) ==
    [seq EXCEPT ![IF i >= 0 THEN i + 1 ELSE Len(seq) + i + 1] = v]

\* s[p:p+len(t)] == t, p counted from 1.
MatchesAt(s, t, p) ==
    /\ p + Len(t) - 1 <= Len(s)
    /\ SubSeq(s, p, p + Len(t) - 1) = t

RECURSIVE SplitFrom(_, _, _, _)
SplitFrom(s, sep, p, cur) ==
    IF p > Len(s) THEN <<cur>>
    ELSE IF MatchesAt(s, sep, p)
         THEN <<cur>> \o SplitFrom(s, sep, p + Len(sep), <<>>)
         ELSE SplitFrom(s, sep, p + 1, Append(cur, s[p]))

\* str.split(sep) for a non-empty sep (an empty sep raises ValueError, which
\* the callers below test before they split).
Split(s, sep) ==
    SplitFrom(s, sep, 1, <<>>)

RECURSIVE Join(_, _)
\* sep.join(parts)
Join(parts, sep) ==
    IF parts = <<>> THEN <<>>
    ELSE IF Len(parts) = 1 THEN parts[1]
    ELSE parts[1] \o sep \o Join(Tail(parts), sep)

\* s.startswith(t)
StartsWith(s, t) ==
    MatchesAt(s, t, 1)

\* s.endswith(t)
EndsWith(s, t) ==
    /\ Len(t) <= Len(s)
    /\ SubSeq(s, Len(s) - Len(t) + 1, Len(s)) = t

\* The elements of a sequence.
Range(seq) ==
    {seq[i] : i \in DOMAIN seq}

(***************************************************************************)
(* datetime.strptime for the format "%Y%m%d".  The format is compiled to   *)
(* the regular expression                                                  *)
(*   (\d\d\d\d)(1[0-2]|0[1-9]|[1-9])(3[0-1]|[1-2]\d|0[1-9]|[1-9]| [1-9])   *)
(* matched at the start of the token: alternatives are tried in order, the *)
(* month backtracks when no day follows, text left over after the match    *)
(* and a date that does not exist both raise ValueError.                   *)
(***************************************************************************)
Digits ==
    <<"0", "1", "2", "3", "4", "5", "6", "7", "8", "9">>

IsDigit(c) ==
    c \in Range(Digits)

DigitVal(c) ==
    (CHOOSE i \in DOMAIN Digits : Digits[i] = c) - 1

IsDigitIn(s, p, lo, hi) ==
    /\ p <= Len(s)
    /\ IsDigit(s[p])
    /\ DigitVal(s[p]) >= lo
    /\ DigitVal(s[p]) <= hi

\* The lengths of the month alternatives that match at p, in regex order.
MonthMatches(s, p) ==
    (IF IsDigitIn(s, p, 1, 1) /\ IsDigitIn(s, p + 1, 0, 2) THEN <<2>> ELSE <<>>)
    \o (IF IsDigitIn(s, p, 0, 0) /\ IsDigitIn(s, p + 1, 1, 9) THEN <<2>> ELSE <<>>)
    \o (IF IsDigitIn(s, p, 1, 9) THEN <<1>> ELSE <<>>)

\* The first day alternative that matches at p, as <<length, value>>, or <<>>.
DayMatch(s, p) ==
    IF IsDigitIn(s, p, 3, 3) /\ IsDigitIn(s, p + 1, 0, 1)
        THEN <<2, 30 + DigitVal(s[p + 1])>>
    ELSE IF IsDigitIn(s, p, 1, 2) /\ IsDigitIn(s, p + 1, 0, 9)
        THEN <<2, 10 * DigitVal(s[p]) + DigitVal(s[p + 1])>>
    ELSE IF IsDigitIn(s, p, 0, 0) /\ IsDigitIn(s, p + 1, 1, 9)
        THEN <<2, DigitVal(s[p + 1])>>
    ELSE IF IsDigitIn(s, p, 1, 9)
        THEN <<1, DigitVal(s[p])>>
    ELSE IF p <= Len(s) /\ s[p] = " " /\ IsDigitIn(s, p + 1, 1, 9)
        THEN <<2, DigitVal(s[p + 1])>>
    ELSE <<>>

MonthVal(s, p, len) ==
    IF len = 2 THEN 10 * DigitVal(s[p]) + DigitVal(s[p + 1]) ELSE DigitVal(s[p])

IsLeap(y) ==
    /\ y % 4 = 0
    /\ (y % 100 # 0 \/ y % 400 = 0)

DaysInMonth(y, m) ==
    IF m = 2 THEN (IF IsLeap(y) THEN 29 ELSE 28)
    ELSE IF m \in {4, 6, 9, 11} THEN 30
    ELSE 31

FormatYmd ==
    "%Y%m%d"

BadTime ==
    [raised |-> "ValueError", value |-> <<>>]

\* The datetime of the matched groups: nothing may follow the day, and the
\* date must exist.
MakeDate(tok, y, m, mlen, dm) ==
    IF 4 + mlen + dm[1] # Len(tok) THEN BadTime
    ELSE IF y < 1 \/ dm[2] > DaysInMonth(y, m) THEN BadTime
    ELSE [raised |-> None, value |-> <<y, m, dm[2], 0, 0, 0>>]

YearVal(tok) ==
    1000 * DigitVal(tok[1]) + 100 * DigitVal(tok[2])
    + 10 * DigitVal(tok[3]) + DigitVal(tok[4])

\* full: the lengths of the month alternatives after which a day matches.
MatchMonthDay(tok, full) ==
    IF full = <<>> THEN BadTime
    ELSE MakeDate(tok, YearVal(tok), MonthVal(tok, 5, full[1]), full[1],
                  DayMatch(tok, 5 + full[1]))

\* datetime.strptime(tok, fmt): [raised |-> None, value |-> the datetime as
\* <<year, month, day, hour, minute, second>>] or [raised |-> "ValueError"].
strptime(tok, fmt) ==
    IF fmt # FormatYmd \/ ~(\A p \in 1..4 : IsDigitIn(tok, p, 0, 9)) THEN BadTime
    ELSE MatchMonthDay(tok, SelectSeq(MonthMatches(tok, 5),
                                      LAMBDA len : DayMatch(tok, 5 + len) # <<>>))

(***************************************************************************)
(* The remote object store: its keys in the order the store lists them     *)
(* (ascending byte order), and the paginated list-by-prefix call.          *)
(***************************************************************************)
\* "S2/20230615/B04_10m.tif"
Key2 ==
    <<"S","2","/","2","0","2","3","0","6","1","5","/","B","0","4","_","1","0","m",".","t","i","f">>

\* "S2/20230615/B04_10m.tiff"
Key3 ==
    <<"S","2","/","2","0","2","3","0","6","1","5","/","B","0","4","_","1","0","m",".","t","i","f","f">>

\* "S2/20230615/B08_10m.tif"
Key4 ==
    <<"S","2","/","2","0","2","3","0","6","1","5","/","B","0","8","_","1","0","m",".","t","i","f">>

\* "S2/20230615/meta.xml"
Key5 ==
    <<"S","2","/","2","0","2","3","0","6","1","5","/","m","e","t","a",".","x","m","l">>

\* "S2/20230616/B04_10m.tif"
Key6 ==
    <<"S","2","/","2","0","2","3","0","6","1","6","/","B","0","4","_","1","0","m",".","t","i","f">>

\* "S2/20230616/B08_10m.TIF"
Key7 ==
    <<"S","2","/","2","0","2","3","0","6","1","6","/","B","0","8","_","1","0","m",".","T","I","F">>

\* "S2/20230616/B8A_10m.Tif"
Key8 ==
    <<"S","2","/","2","0","2","3","0","6","1","6","/","B","8","A","_","1","0","m",".","T","i","f">>

\* "S2/abcd/B04_10m.tif"
Key9 ==
    <<"S","2","/","a","b","c","d","/","B","0","4","_","1","0","m",".","t","i","f">>

\* "T/20230615_x.tif"
Key10 ==
    <<"T","/","2","0","2","3","0","6","1","5","_","x",".","t","i","f">>

\* "T/20230616_x.tif"
Key11 ==
    <<"T","/","2","0","2","3","0","6","1","6","_","x",".","t","i","f">>

\* The objects of the bucket, as the store enumerates them.
BucketObjects ==
    <<Key2, Key3, Key4, Key5, Key6, Key7, Key8, Key9, Key10, Key11>>

(***************************************************************************)
(* Path convention: the body of the loop of build_byoc_tiles.              *)
(***************************************************************************)
Slash ==
    <<"/">>

\* "(BAND)"
BandPlaceholder ==
    <<"(", "B", "A", "N", "D", ")">>

\* parts[position] as [raised, value]: a position out of range raises
\* IndexError.
TokenAt(parts, position) ==
    IF ~InRange(parts, position) THEN [raised |-> "IndexError", value |-> <<>>]
    ELSE [raised |-> None, value |-> PyIndex(parts, position)]

\* name.split(delimiter)[position] as [raised, value]: an empty separator
\* raises ValueError.
SplitToken(name, delimiter, position) ==
    IF delimiter = <<>> THEN [raised |-> "ValueError", value |-> <<>>]
    ELSE TokenAt(Split(name, delimiter), position)

\* datetime.strptime of the token, when there is one.
ParseToken(tok, fmt) ==
    IF tok.raised # None THEN tok ELSE strptime(tok.value, fmt)

SensingTimeOf(segs, stp) ==
    IF ~InRange(segs, stp.path) THEN [raised |-> "IndexError", value |-> <<>>]
    ELSE ParseToken(SplitToken(PyIndex(segs, stp.path), stp.delimiter, stp.position),
                    stp.format)

\* The datetime of one tile_path: [raised, value].
SensingTime(tile_path, stp) ==
    SensingTimeOf(Split(tile_path, Slash), stp)

\* segs[0:-1]
AllButLast(segs) ==
    SubSeq(segs, 1, Len(segs) - 1)

\* tile_path.split("/")[0:-1]
ParentPath(tile_path) ==
    AllButLast(Split(tile_path, Slash))

\* split_file_name[position] = "(BAND)"; delimiter.join(split_file_name)
Substitute(split_file_name, delimiter, position) ==
    IF ~InRange(split_file_name, position)
        THEN [raised |-> "IndexError", value |-> <<>>]
    ELSE [raised |-> None,
          value |-> Join(PySetItem(split_file_name, position, BandPlaceholder),
                         delimiter)]

NewFileNameOf(segs, bp) ==
    IF ~InRange(segs, bp.path) THEN [raised |-> "IndexError", value |-> <<>>]
    ELSE IF bp.delimiter = <<>> THEN [raised |-> "ValueError", value |-> <<>>]
    ELSE Substitute(Split(PyIndex(segs, bp.path), bp.delimiter), bp.delimiter,
                    bp.position)

\* The file name with "(BAND)" at the band position: [raised, value].
NewFileName(tile_path, bp) ==
    NewFileNameOf(Split(tile_path, Slash), bp)

NoTile(error) ==
    [raised |-> error, path |-> <<>>, sensing_time |-> <<>>]

\* byoc_path = f"{'/'.join(parent_path)}/{new_file_name}", with the datetime.
Combine(tile_path, t, f) ==
    IF t.raised # None THEN NoTile(t.raised)
    ELSE IF f.raised # None THEN NoTile(f.raised)
    ELSE [raised |-> None,
          path |-> Join(ParentPath(tile_path), Slash) \o Slash \o f.value,
          sensing_time |-> t.value]

\* One iteration of the loop: [raised, path, sensing_time].
derive(tile_path, stp, bp) ==
    Combine(tile_path, SensingTime(tile_path, stp), NewFileName(tile_path, bp))

\* The values of sensing_time_position.
SensingTimePositions ==
    { [path |-> 1, delimiter |-> <<>>, position |-> 0, format |-> FormatYmd],
      [path |-> 1, delimiter |-> <<"_">>, position |-> 0, format |-> FormatYmd],
      [path |-> -1, delimiter |-> <<"_">>, position |-> 0, format |-> FormatYmd] }

\* The values of band_position.
BandPositions ==
    { [path |-> -1, delimiter |-> <<"_">>, position |-> 0],
      [path |-> 1, delimiter |-> <<"_">>, position |-> 0],
      [path |-> -1, delimiter |-> <<"_">>, position |-> 2] }

\* derive, tabulated over the keys of the bucket and the conventions.
DeriveTable ==
    [tile_path \in Range(BucketObjects) |->
        [stp \in SensingTimePositions |->
            [bp \in BandPositions |-> derive(tile_path, stp, bp)]]]

\* The paths of a list of tiles.
Paths(tiles) ==
    [i \in DOMAIN tiles |-> tiles[i].path]

\* A variant without the test: every key appends a tile.
AppendAlways(byoc_tiles, d) ==
    Append(byoc_tiles, [path |-> d.path, sensing_time |-> d.sensing_time])

\* A variant in which a later key with the same path overwrites the datetime.
LastWins(byoc_tiles, d) ==
    IF d.path \in Range(Paths(byoc_tiles))
    THEN [i \in DOMAIN byoc_tiles |->
            IF byoc_tiles[i].path = d.path
            THEN [path |-> d.path, sensing_time |-> d.sensing_time]
            ELSE byoc_tiles[i]]
    ELSE Append(byoc_tiles, [path |-> d.path, sensing_time |-> d.sensing_time])

\* "if not byoc_path in [x[0] for x in byoc_tiles]: byoc_tiles.append(...)"
AppendIfNew(byoc_tiles, d) ==
    IF d.path \in Range(Paths(byoc_tiles)) THEN byoc_tiles
    ELSE Append(byoc_tiles, [path |-> d.path, sensing_time |-> d.sensing_time])

RECURSIVE BuildFrom(_, _, _, _, _)
\* A variant that skips a key whose extraction fails.
SkipBadKey(files, i, stp, bp, byoc_tiles, d) ==
    IF d.raised # None THEN BuildFrom(files, i + 1, stp, bp, byoc_tiles)
    ELSE BuildFrom(files, i + 1, stp, bp, AppendIfNew(byoc_tiles, d))

\* The rest of the loop after file i, whose iteration gave d.
BuildNext(files, i, stp, bp, byoc_tiles, d) ==
    IF d.raised # None THEN [raised |-> d.raised, value |-> <<>>]
    ELSE BuildFrom(files, i + 1, stp, bp, AppendIfNew(byoc_tiles, d))

\* The loop from file i.
BuildFrom(files, i, stp, bp, byoc_tiles) ==
    IF i > Len(files) THEN [raised |-> None, value |-> byoc_tiles]
    ELSE BuildNext(files, i, stp, bp, byoc_tiles, DeriveTable[files[i]][stp][bp])

\* build_byoc_tiles over self.file_list = files: [raised, value].
build_byoc_tiles(files, stp, bp) ==
    BuildFrom(files, 1, stp, bp, <<>>)

(***************************************************************************)
(* The paginated list-by-prefix call of the store, and list_tiles.         *)
(***************************************************************************)
\* The values of params.base_path: "S2/20230615/", "S2/2023", "S2/", "T/"
\* and "X" (no object has it).
BasePaths ==
    { <<"S","2","/","2","0","2","3","0","6","1","5","/">>,
      <<"S","2","/","2","0","2","3">>,
      <<"S","2","/">>,
      <<"T","/">>,
      <<"X">> }

RECURSIVE Flatten(_)
\* The concatenation of a sequence of sequences.
Flatten(seqs) ==
    IF seqs = <<>> THEN <<>> ELSE Head(seqs) \o Flatten(Tail(seqs))

RECURSIVE Chunks(_, _)
Chunks(keys, size) ==
    IF Len(keys) <= size THEN <<keys>>
    ELSE <<SubSeq(keys, 1, size)>> \o Chunks(SubSeq(keys, size + 1, Len(keys)), size)

\* paginator.paginate(Bucket=..., Prefix=prefix): the pages, each the keys of
\* its "Contents"; a listing that matches nothing is one page without
\* "Contents" (the empty sequence here).
paginate(prefix) ==
    Chunks(SelectSeq(BucketObjects, LAMBDA k : StartsWith(k, prefix)), PageSize)

\* ".tiff", ".tif", ".TIF", ".TIFF"
TiffSuffixes ==
    { <<".","t","i","f","f">>, <<".","t","i","f">>,
      <<".","T","I","F">>, <<".","T","I","F","F">> }

\* subobj["Key"].endswith((".tiff", ".tif", ".TIF", ".TIFF"))
IsTiff(key) ==
    \E suffix \in TiffSuffixes : EndsWith(key, suffix)

\* What list_tiles does, in order: a fetch of a page from the store (which may
\* fail) and the append of a key to tiff_files.
Fetch ==
    [fetch |-> TRUE, key |-> <<>>]

Found(key) ==
    [fetch |-> FALSE, key |-> key]

Founds(keys) ==
    [j \in DOMAIN keys |-> Found(keys[j])]

\* The inner loop over the pages (subpages) of one re-listed object key.
SubListingOf(subpages) ==
    Flatten([i \in DOMAIN subpages |->
        <<Fetch>> \o Founds(SelectSeq(subpages[i], IsTiff))])

SubListing(obj_key) ==
    SubListingOf(paginate(obj_key))

\* The outer loop over the pages of base_path.
ListingOf(pages) ==
    Flatten([i \in DOMAIN pages |->
        <<Fetch>> \o Flatten([j \in DOMAIN pages[i] |-> SubListing(pages[i][j])])])

Listing(base_path) ==
    ListingOf(paginate(base_path))

\* Listing, tabulated over the base paths.
ListingTable ==
    [base_path \in BasePaths |-> Listing(base_path)]

\* The number of page fetches of a complete listing.
Fetches(steps) ==
    Len(SelectSeq(steps, LAMBDA e : e.fetch))

RECURSIVE RunListing(_, _, _, _)
\* The steps up to the fail_at-th fetch, which raises (fail_at = 0: none
\* does): [raised, tiff_files].
RunListing(steps, i, fail_at, tiff_files) ==
    IF i > Len(steps) THEN [raised |-> None, tiff_files |-> tiff_files]
    ELSE IF steps[i].fetch
        THEN IF fail_at = 1
             THEN [raised |-> "ClientError", tiff_files |-> tiff_files]
             ELSE RunListing(steps, i + 1, fail_at - 1, tiff_files)
    ELSE RunListing(steps, i + 1, fail_at, Append(tiff_files, steps[i].key))

\* A variant that stores the keys in self.file_list as it finds them.
AssignedAnyway(old_file_list, run) ==
    run.tiff_files

\* self.file_list after list_tiles: assigned once, after the loops.
FileListAfter(old_file_list, run) ==
    IF run.raised # None THEN old_file_list ELSE run.tiff_files

(***************************************************************************)
(* create_byoc_collection: the check of the band schema.                   *)
(***************************************************************************)
\* required_fields, in the order of the source.
required_fields ==
    <<"name", "source", "bit_depth", "sample_format">>

\* "field for field in required_fields if field not in band": a band is the
\* set of the keys of its dict.
missing_fields(band) ==
    SelectSeq(required_fields, LAMBDA field : field \notin band)

RECURSIVE FirstMissing(_, _)
\* The loop over band_information from entry i: the missing fields of the
\* first entry that lacks any, <<>> when no entry does.
FirstMissing(band_information, i) ==
    IF i > Len(band_information) THEN <<>>
    ELSE IF missing_fields(band_information[i]) # <<>>
        THEN missing_fields(band_information[i])
    ELSE FirstMissing(band_information, i + 1)

\* A variant that checks the first entry only.
CheckFirstBandOnly(band_information) ==
    IF band_information.is_none \/ band_information.list = <<>> THEN <<>>
    ELSE missing_fields(band_information.list[1])

\* The fields named by the ValueError of create_byoc_collection, <<>> when it
\* raises none ("if band_information is not None: for band in ...").  The
\* optional list is [is_none, list].
BandCheck(band_information) ==
    IF band_information.is_none THEN <<>>
    ELSE FirstMissing(band_information.list, 1)

\* The band dicts the model passes: complete, without bit_depth, without name
\* and source.
CompleteBand ==
    {"name", "source", "bit_depth", "sample_format"}

NoBitDepth ==
    {"name", "source", "sample_format"}

NoNameNoSource ==
    {"bit_depth", "sample_format"}

\* The values of band_information: None and lists of band dicts.
BandInformations ==
    {[is_none |-> TRUE, list |-> <<>>]}
    \cup {[is_none |-> FALSE, list |-> l] :
            l \in { <<>>,
                    <<CompleteBand>>,
                    <<NoBitDepth>>,
                    <<CompleteBand, CompleteBand>>,
                    <<CompleteBand, NoBitDepth>>,
                    <<NoNameNoSource, CompleteBand>>,
                    <<NoBitDepth, NoNameNoSource>>,
                    <<CompleteBand, CompleteBand, NoNameNoSource>> }}

(***************************************************************************)
(* ingest_tiles_to_collection: the reconciliation loop.                    *)
(***************************************************************************)
\* A variant that submits every built tile.
SubmitAll(byoc_tiles, existing_tiles) ==
    byoc_tiles

\* "for tile in byoc_tiles: if byoc_tile.path not in [x.path for x in
\* existing_tiles]: create_tile(...)": the tiles create_tile is called for,
\* in order, when no call fails.
ToCreate(byoc_tiles, existing_tiles) ==
    SelectSeq(byoc_tiles, LAMBDA tile : tile.path \notin Range(Paths(existing_tiles)))

\* The tile the catalog holds after create_tile.  A tile of iter_tiles is
\* modelled with the fields each method reads: line 258 reads x.path, lines
\* 276-287 read tile["status"], tile["additionalData"] and tile["path"].
NewTile(tile) ==
    [path |-> tile.path, sensing_time |-> tile.sensing_time,
     status |-> "PENDING", cause |-> None]

NoRun ==
    [raised |-> None, byoc_tiles |-> <<>>, existing_tiles |-> <<>>,
     requested |-> <<>>, created |-> <<>>]

\* The loop over the tiles to create (todo), of which create_tile is called
\* for the first n and succeeds for the first m.
Submit(byoc_tiles, existing_tiles, todo, n, m) ==
    [raised |-> IF m < n THEN "RemoteError" ELSE None,
     byoc_tiles |-> byoc_tiles,
     existing_tiles |-> existing_tiles,
     requested |-> SubSeq(todo, 1, n),
     created |-> [i \in 1..m |-> NewTile(todo[i])]]

SubmitUntil(byoc_tiles, existing_tiles, todo, fail_at) ==
    IF fail_at > 1 /\ fail_at - 1 <= Len(todo)
    THEN Submit(byoc_tiles, existing_tiles, todo, fail_at - 1, fail_at - 2)
    ELSE Submit(byoc_tiles, existing_tiles, todo, Len(todo), Len(todo))

\* What follows build_byoc_tiles, which gave b.
Reconcile(b, has_collection, tiles, fail_at) ==
    IF b.raised # None THEN [NoRun EXCEPT !.raised = b.raised]
    ELSE IF ~has_collection \/ fail_at = 1
        THEN [NoRun EXCEPT !.raised = "RemoteError", !.byoc_tiles = b.value]
    ELSE SubmitUntil(b.value, tiles, ToCreate(b.value, tiles), fail_at)

\* One invocation, with the catalog's tiles of the collection (has_collection:
\* whether self.byoc_collection is one) and the remote call that fails (0:
\* none; 1: iter_tiles; k + 1: the k-th create_tile).
ingest_tiles_to_collection(files, has_collection, tiles, stp, bp, fail_at) ==
    Reconcile(build_byoc_tiles(files, stp, bp), has_collection, tiles, fail_at)

(***************************************************************************)
(* collection_tile_report.                                                 *)
(***************************************************************************)
\* A variant without the final else branch.
CountKnownOnly(report, tile) ==
    IF tile.status = "INGESTED" THEN [report EXCEPT !.Ingested = @ + 1]
    ELSE IF tile.status = "FAILED" THEN [report EXCEPT !.Failed = @ + 1]
    ELSE report

\* The body of the loop over the tiles: the counts.
Count(report, tile) ==
    IF tile.status = "INGESTED" THEN [report EXCEPT !.Ingested = @ + 1]
    ELSE IF tile.status = "FAILED" THEN [report EXCEPT !.Failed = @ + 1]
    ELSE [report EXCEPT !.Pending = @ + 1]

\* The body of the loop over the tiles: the failure reasons.
Reason(failed, tile) ==
    IF tile.status # "FAILED" THEN failed
    ELSE IF tile.cause # None THEN Append(failed, tile.cause)
    ELSE Append(failed, <<"Unknown failure for tile ", tile.path>>)

RECURSIVE ReportFrom(_, _, _, _)
ReportFrom(tiles, i, report, failed) ==
    IF i > Len(tiles) THEN <<report, failed>>
    ELSE ReportFrom(tiles, i + 1, Count(report, tiles[i]), Reason(failed, tiles[i]))

\* collection_tile_report over the tiles iter_tiles returned.
collection_tile_report(tiles) ==
    ReportFrom(tiles, 1,
               [Ingested |-> 0, Failed |-> 0, Pending |-> 0, Total |-> Len(tiles)],
               <<>>)

(***************************************************************************)
(* The state: the fields of the Ingestor, the catalog behind byoc_client,  *)
(* and what the last operation was given, did and returned.                *)
(***************************************************************************)
VARIABLES
    file_list,          \* self.file_list
    byoc_collection,    \* self.byoc_collection: <<>> for None, or <<id>>
    catalog,            \* the catalog: [collections, tiles], the number of
                        \* collections created and the tiles of the one
                        \* self.byoc_collection names (the tiles of a collection
                        \* whose handle was overwritten are never read again)
    op,                 \* the last operation
    args,               \* its arguments
    ret,                \* [raised, value]: the exception or the value returned
    locals,             \* its local variables when it ended
    calls               \* the calls it made to the catalog, in order

vars ==
    <<file_list, byoc_collection, catalog, op, args, ret, locals, calls>>

NoLocals ==
    [tiff_files |-> <<>>, byoc_tiles |-> <<>>, existing_tiles |-> <<>>]

\* self.byoc_collection = None
NoCollection ==
    <<>>

\* __init__
Init ==
    /\ file_list = <<>>
    /\ byoc_collection = NoCollection
    /\ catalog = [collections |-> 0, tiles |-> <<>>]
    /\ op = "__init__"
    /\ args = [none |-> None]
    /\ ret = [raised |-> None, value |-> None]
    /\ locals = NoLocals
    /\ calls = <<>>

\* create_byoc_collection(collection_name, bucket_name, storage_id,
\* band_information); remote_ok: whether the catalog's create_collection
\* succeeds.
CreateByocCollection ==
    \E band_information \in BandInformations :
      \E missing \in {BandCheck(band_information)} :
        /\ op' = "create_byoc_collection"
        /\ locals' = NoLocals
        /\ UNCHANGED file_list
        /\ IF missing # <<>>
           THEN /\ args' = [band_information |-> band_information, storage_id |-> None]
                /\ ret' = [raised |-> "ValueError", value |-> missing]
                /\ calls' = <<>>
                /\ UNCHANGED <<byoc_collection, catalog>>
           ELSE \E storage_id \in {None, "eodata"}, remote_ok \in BOOLEAN :
                /\ catalog.collections < MaxCollections
                /\ args' = [band_information |-> band_information,
                            storage_id |-> storage_id]
                /\ calls' = <<[call |-> "create_collection",
                               bands |-> ~band_information.is_none,
                               storageIdentifier |-> storage_id]>>
                /\ IF remote_ok
                   THEN /\ catalog' = [collections |-> catalog.collections + 1,
                                       tiles |-> <<>>]
                        /\ byoc_collection' = <<catalog.collections + 1>>
                        /\ ret' = [raised |-> None, value |-> None]
                   ELSE /\ ret' = [raised |-> "RemoteError", value |-> None]
                        /\ UNCHANGED <<byoc_collection, catalog>>

\* list_tiles(params); fail_at: the page fetch that fails, 0 for none.
ListTiles ==
    \E base_path \in BasePaths :
      \E fail_at \in 0..Fetches(ListingTable[base_path]) :
        \E run \in {RunListing(ListingTable[base_path], 1, fail_at, <<>>)} :
            /\ op' = "list_tiles"
            /\ args' = [base_path |-> base_path]
            /\ locals' = [NoLocals EXCEPT !.tiff_files = run.tiff_files]
            /\ file_list' = FileListAfter(file_list, run)
            /\ ret' = [raised |-> run.raised,
                       value |-> IF run.raised = None THEN run.tiff_files ELSE None]
            /\ calls' = <<>>
            /\ UNCHANGED <<byoc_collection, catalog>>

\* build_byoc_tiles(sensing_time_position, band_position)
BuildByocTiles ==
    \E stp \in SensingTimePositions, bp \in BandPositions :
        /\ op' = "build_byoc_tiles"
        /\ args' = [sensing_time_position |-> stp, band_position |-> bp]
        /\ locals' = NoLocals
        /\ ret' = build_byoc_tiles(file_list, stp, bp)
        /\ calls' = <<>>
        /\ UNCHANGED <<file_list, byoc_collection, catalog>>

\* The tiles iter_tiles returns for self.byoc_collection.
CollectionTiles ==
    IF byoc_collection = NoCollection THEN <<>> ELSE catalog.tiles

CreateTileCall(tile) ==
    [call |-> "create_tile", path |-> tile.path, sensing_time |-> tile.sensing_time]

\* The remote calls of one invocation that may fail: none when
\* build_byoc_tiles raised or there is no collection to read, else iter_tiles
\* and each create_tile.
FailPoints(b, has_collection, tiles) ==
    IF b.raised # None \/ ~has_collection THEN 0
    ELSE 1 + Len(ToCreate(b.value, tiles))

\* The calls of one invocation to the catalog: iter_tiles unless
\* build_byoc_tiles raised, then the create_tile calls.
CatalogCalls(run) ==
    (IF run.raised \in {None, "RemoteError"} THEN <<[call |-> "iter_tiles"]>> ELSE <<>>)
    \o [i \in DOMAIN run.requested |-> CreateTileCall(run.requested[i])]

\* ingest_tiles_to_collection(sensing_time_position, band_position); fail_at:
\* the remote call that fails, 0 for none.
IngestTilesToCollection ==
    \E stp \in SensingTimePositions, bp \in BandPositions :
     \E fail_at \in 0..FailPoints(build_byoc_tiles(file_list, stp, bp),
                                  byoc_collection # NoCollection, CollectionTiles) :
      \E run \in {ingest_tiles_to_collection(file_list, byoc_collection # NoCollection,
                                              CollectionTiles, stp, bp, fail_at)} :
            /\ Len(run.existing_tiles) + Len(run.created) <= MaxTiles
            /\ op' = "ingest_tiles_to_collection"
            /\ args' = [sensing_time_position |-> stp, band_position |-> bp]
            /\ locals' = [NoLocals EXCEPT !.byoc_tiles = run.byoc_tiles,
                                          !.existing_tiles = run.existing_tiles]
            /\ ret' = [raised |-> run.raised, value |-> None]
            /\ calls' = CatalogCalls(run)
            /\ catalog' = [catalog EXCEPT !.tiles = @ \o run.created]
            /\ UNCHANGED <<file_list, byoc_collection>>

\* collection_tile_report(); remote_ok: whether iter_tiles succeeds.
CollectionTileReport ==
    \E remote_ok \in BOOLEAN :
        /\ op' = "collection_tile_report"
        /\ args' = [none |-> None]
        /\ calls' = <<[call |-> "iter_tiles"]>>
        /\ IF remote_ok /\ byoc_collection # NoCollection
           THEN /\ locals' = [NoLocals EXCEPT !.existing_tiles = CollectionTiles]
                /\ ret' = [raised |-> None,
                           value |-> collection_tile_report(CollectionTiles)]
           ELSE /\ locals' = NoLocals
                /\ ret' = [raised |-> "RemoteError", value |-> None]
        /\ UNCHANGED <<file_list, byoc_collection, catalog>>

\* The catalog ingests a tile asynchronously: PENDING, then INGESTING, then
\* INGESTED or FAILED, with or without a failure cause.
CatalogIngests ==
    \E i \in DOMAIN catalog.tiles :
        \E status \in {"INGESTING", "INGESTED", "FAILED"}, cause \in {None, "not a COG"} :
            /\ \/ catalog.tiles[i].status = "PENDING" /\ status = "INGESTING"
               \/ catalog.tiles[i].status = "INGESTING" /\ status # "INGESTING"
            /\ cause # None => status = "FAILED"
            /\ catalog' = [catalog EXCEPT !.tiles[i].status = status,
                                          !.tiles[i].cause = cause]
            /\ op' = "catalog"
            /\ args' = [none |-> None]
            /\ ret' = [raised |-> None, value |-> None]
            /\ locals' = NoLocals
            /\ calls' = <<>>
            /\ UNCHANGED <<file_list, byoc_collection>>

Next ==
    \/ CreateByocCollection
    \/ ListTiles
    \/ BuildByocTiles
    \/ IngestTilesToCollection
    \/ CollectionTileReport

\* The ingestor and the catalog as it answers the ingestor's calls.
Spec ==
    Init /\ [][Next]_vars

\* The state after create_byoc_collection, list_tiles of a base path and an
\* ingest_tiles_to_collection that submitted tiles, none of the calls failing.
InitIngested ==
    \E base_path \in BasePaths, stp \in SensingTimePositions, bp \in BandPositions :
      \E files \in {RunListing(ListingTable[base_path], 1, 0, <<>>).tiff_files} :
        \E run \in {ingest_tiles_to_collection(files, TRUE, <<>>, stp, bp, 0)} :
            /\ run.raised = None
            /\ run.created # <<>>
            /\ Len(run.created) <= MaxTiles
            /\ file_list = files
            /\ byoc_collection = <<1>>
            /\ catalog = [collections |-> 1, tiles |-> run.created]
            /\ op = "ingest_tiles_to_collection"
            /\ args = [sensing_time_position |-> stp, band_position |-> bp]
            /\ ret = [raised |-> None, value |-> None]
            /\ locals = [NoLocals EXCEPT !.byoc_tiles = run.byoc_tiles]
            /\ calls = CatalogCalls(run)

NextCatalog ==
    \/ CatalogIngests
    \/ CollectionTileReport

\* The catalog's asynchronous ingestion of the submitted tiles, and the
\* reports read while it runs.
SpecCatalog ==
    InitIngested /\ [][NextCatalog]_vars

(***************************************************************************)
(* Properties.                                                             *)
(***************************************************************************)
\* The create_tile calls among the calls of the last operation, in order.
CreateTileCalls ==
    SelectSeq(calls, LAMBDA c : c.call = "create_tile")

\* The number of create_tile calls made for a tile.
TimesSubmitted(tile) ==
    Cardinality({j \in DOMAIN CreateTileCalls :
                    /\ CreateTileCalls[j].path = tile.path
                    /\ CreateTileCalls[j].sensing_time = tile.sensing_time})

\* C1: in one invocation of ingest_tiles_to_collection no built tile whose
\* path is among the paths of the existing tiles read from the catalog is
\* submitted and no tile is submitted twice; when the invocation returns,
\* every built tile whose path is absent was submitted exactly once, and
\* nothing but built tiles was submitted; so an invocation whose built tiles
\* are all among the existing ones submits nothing.
C1_SubmitsExactlyTheAbsent ==
    op = "ingest_tiles_to_collection" =>
        /\ \A j \in DOMAIN CreateTileCalls :
            /\ CreateTileCalls[j].path \notin Range(Paths(locals.existing_tiles))
            /\ \E i \in DOMAIN locals.byoc_tiles :
                /\ locals.byoc_tiles[i].path = CreateTileCalls[j].path
                /\ locals.byoc_tiles[i].sensing_time = CreateTileCalls[j].sensing_time
            /\ \A k \in DOMAIN CreateTileCalls :
                CreateTileCalls[k].path = CreateTileCalls[j].path => k = j
        /\ ret.raised = None =>
            \A i \in DOMAIN locals.byoc_tiles :
                TimesSubmitted(locals.byoc_tiles[i]) =
                    IF locals.byoc_tiles[i].path \in Range(Paths(locals.existing_tiles))
                    THEN 0 ELSE 1
        /\ (ret.raised = None
            /\ Range(Paths(locals.byoc_tiles)) \subseteq Range(Paths(locals.existing_tiles)))
           => CreateTileCalls = <<>>

\* An invocation returned after it skipped a built tile the catalog held and
\* submitted one it did not hold.
C1_Witness ==
    /\ op = "ingest_tiles_to_collection"
    /\ ret.raised = None
    /\ \E i \in DOMAIN locals.byoc_tiles :
        locals.byoc_tiles[i].path \in Range(Paths(locals.existing_tiles))
    /\ CreateTileCalls # <<>>

\* A second invocation against built tiles the catalog already holds returned
\* and submitted nothing.
C1_WitnessSecond ==
    /\ op = "ingest_tiles_to_collection"
    /\ ret.raised = None
    /\ locals.byoc_tiles # <<>>
    /\ Range(Paths(locals.byoc_tiles)) \subseteq Range(Paths(locals.existing_tiles))
    /\ CreateTileCalls = <<>>

\* C2: the tiles of the collection never hold one path twice, and after an
\* ingest_tiles_to_collection that returned without error the path derived
\* from every key of file_list is the path of a tile of the collection.
C2_NoDuplicateNoLostFile ==
    /\ \A i, j \in DOMAIN catalog.tiles :
        catalog.tiles[i].path = catalog.tiles[j].path => i = j
    /\ (op = "ingest_tiles_to_collection" /\ ret.raised = None) =>
        \A k \in DOMAIN file_list :
            DeriveTable[file_list[k]][args.sensing_time_position][args.band_position].path
                \in Range(Paths(catalog.tiles))

\* An ingest returned without error for a file_list in which two different
\* keys derive the same path, after an earlier ingest had filled the
\* collection in part.
C2_Witness ==
    /\ op = "ingest_tiles_to_collection"
    /\ ret.raised = None
    /\ locals.existing_tiles # <<>>
    /\ Len(catalog.tiles) > Len(locals.existing_tiles)
    /\ \E k, l \in DOMAIN file_list :
        /\ file_list[k] # file_list[l]
        /\ DeriveTable[file_list[k]][args.sensing_time_position][args.band_position].path
           = DeriveTable[file_list[l]][args.sensing_time_position][args.band_position].path

\* The split the claim's example uses: an empty delimiter leaves the segment
\* whole.
SplitAsStated(name, delimiter) ==
    IF delimiter = <<>> THEN <<name>> ELSE Split(name, delimiter)

\* segs[0:path], the segments before the one a convention selects.
SegmentsBefore(segs, path) ==
    SubSeq(segs, 1, IF path >= 0 THEN path ELSE Len(segs) + path)

\* The indices of the conventions are valid for the segments of a path.
ValidIndices(segs, stp, bp) ==
    /\ InRange(segs, stp.path)
    /\ InRange(SplitAsStated(PyIndex(segs, stp.path), stp.delimiter), stp.position)
    /\ InRange(segs, bp.path)
    /\ InRange(SplitAsStated(PyIndex(segs, bp.path), bp.delimiter), bp.position)

\* The date token of a path, parsed: [raised, value].
DateAsStated(segs, stp) ==
    strptime(PyIndex(SplitAsStated(PyIndex(segs, stp.path), stp.delimiter),
                     stp.position),
             stp.format)

\* The canonical path as the claim states it.
PathAsStated(segs, bp) ==
    Join(SegmentsBefore(segs, bp.path), Slash) \o Slash
    \o Join(PySetItem(SplitAsStated(PyIndex(segs, bp.path), bp.delimiter),
                      bp.position, BandPlaceholder),
            bp.delimiter)

\* What the claim states of one path under conventions whose indices are
\* valid and whose date token has the format.
DeriveAsStated(tile_path, segs, stp, bp) ==
    (ValidIndices(segs, stp, bp) /\ DateAsStated(segs, stp).raised = None) =>
        /\ derive(tile_path, stp, bp).raised = None
        /\ derive(tile_path, stp, bp).path = PathAsStated(segs, bp)
        /\ derive(tile_path, stp, bp).sensing_time = DateAsStated(segs, stp).value

\* "S2/20230615/(BAND)_10m.tif"
ExamplePath ==
    <<"S","2","/","2","0","2","3","0","6","1","5","/","(","B","A","N","D",")","_","1","0","m",".","t","i","f">>

\* {segment 1, delimiter "", position 0, format "%Y%m%d"}
ExampleSensingTimePosition ==
    [path |-> 1, delimiter |-> <<>>, position |-> 0, format |-> FormatYmd]

\* {segment -1, delimiter "_", position 0}
ExampleBandPosition ==
    [path |-> -1, delimiter |-> <<"_">>, position |-> 0]

\* C3: for every key of file_list and conventions whose indices are valid for
\* it, the step of build_byoc_tiles gives the path made of the segments before
\* the segment the band convention selects, joined by "/", then "/" and that
\* segment with "(BAND)" at the band position, and the datetime of the date
\* token; "S2/20230615/B04_10m.tif" under {1, "", 0, "%Y%m%d"} and
\* {-1, "_", 0} gives "S2/20230615/(BAND)_10m.tif" and 2023-06-15T00:00:00.
C3_DeriveAsStated ==
    op = "build_byoc_tiles" =>
        /\ \A k \in DOMAIN file_list :
            DeriveAsStated(file_list[k], Split(file_list[k], Slash),
                           args.sensing_time_position, args.band_position)
        /\ (/\ Key2 \in Range(file_list)
            /\ args.sensing_time_position = ExampleSensingTimePosition
            /\ args.band_position = ExampleBandPosition)
           => /\ derive(Key2, ExampleSensingTimePosition, ExampleBandPosition).raised
                    = None
              /\ derive(Key2, ExampleSensingTimePosition, ExampleBandPosition).path
                    = ExamplePath
              /\ derive(Key2, ExampleSensingTimePosition,
                        ExampleBandPosition).sensing_time = <<2023, 6, 15, 0, 0, 0>>

\* The general statement of C3 alone, for the conventions that split by a
\* delimiter that is not empty.
C3_PathAsStated ==
    (op = "build_byoc_tiles" /\ args.sensing_time_position.delimiter # <<>>) =>
        \A k \in DOMAIN file_list :
            DeriveAsStated(file_list[k], Split(file_list[k], Slash),
                           args.sensing_time_position, args.band_position)

\* Two keys differ only in the band token at the band position.
DifferOnlyInBandToken(segs1, segs2, bp) ==
    /\ Len(segs1) = Len(segs2)
    /\ InRange(segs1, bp.path)
    /\ \A n \in DOMAIN segs1 :
        IF n = (IF bp.path >= 0 THEN bp.path + 1 ELSE Len(segs1) + bp.path + 1)
        THEN /\ Len(Split(segs1[n], bp.delimiter)) = Len(Split(segs2[n], bp.delimiter))
             /\ InRange(Split(segs1[n], bp.delimiter), bp.position)
             /\ PySetItem(Split(segs1[n], bp.delimiter), bp.position, BandPlaceholder)
                = PySetItem(Split(segs2[n], bp.delimiter), bp.position, BandPlaceholder)
        ELSE segs1[n] = segs2[n]

\* C4: when build_byoc_tiles returns, any two keys of file_list that differ
\* only in the band token at the band position have the same derived path,
\* and that path occurs once in the tiles returned.
C4_BandFilesCollapse ==
    (op = "build_byoc_tiles" /\ ret.raised = None) =>
        \A k, l \in DOMAIN file_list :
            DifferOnlyInBandToken(Split(file_list[k], Slash), Split(file_list[l], Slash),
                                  args.band_position)
            => /\ derive(file_list[k], args.sensing_time_position, args.band_position).path
                  = derive(file_list[l], args.sensing_time_position,
                           args.band_position).path
               /\ Cardinality({i \in DOMAIN ret.value :
                      ret.value[i].path
                      = derive(file_list[k], args.sensing_time_position,
                               args.band_position).path}) = 1

\* What the step of the last build_byoc_tiles or ingest_tiles_to_collection
\* gives for the k-th key of file_list.
Derived(k) ==
    derive(file_list[k], args.sensing_time_position, args.band_position)

\* The first key of file_list whose derived path is path.
FirstKeyOf(path) ==
    CHOOSE k \in DOMAIN file_list :
        /\ Derived(k).path = path
        /\ \A l \in 1..(k - 1) : Derived(l).path # path

\* C5: when build_byoc_tiles returns, its tiles are the distinct derived
\* paths of the keys of file_list, none twice, none missing and none added,
\* in the order of their first keys, each with the datetime derived from its
\* first key, whatever the datetimes of the later keys with that path.
C5_FirstOccurrenceWins ==
    (op = "build_byoc_tiles" /\ ret.raised = None) =>
        /\ \A i, j \in DOMAIN ret.value :
            ret.value[i].path = ret.value[j].path => i = j
        /\ Range(Paths(ret.value)) = {Derived(k).path : k \in DOMAIN file_list}
        /\ \A i, j \in DOMAIN ret.value :
            i < j => FirstKeyOf(ret.value[i].path) < FirstKeyOf(ret.value[j].path)
        /\ \A i \in DOMAIN ret.value :
            ret.value[i].sensing_time
                = Derived(FirstKeyOf(ret.value[i].path)).sensing_time

\* build_byoc_tiles returned for a file_list in which a later key has the
\* path of an earlier one and another datetime.
C5_Witness ==
    /\ op = "build_byoc_tiles"
    /\ ret.raised = None
    /\ \E k, l \in DOMAIN file_list :
        /\ k < l
        /\ Derived(k).path = Derived(l).path
        /\ Derived(k).sensing_time # Derived(l).sensing_time

\* C7: when the step fails for any key of file_list, wherever it is in the
\* list, build_byoc_tiles raises and returns no tile, and
\* ingest_tiles_to_collection raises the same way without a call to the
\* catalog: no create_tile, not even for the keys before the bad one.
C7_OneBadKeyAbortsAll ==
    (/\ op \in {"build_byoc_tiles", "ingest_tiles_to_collection"}
     /\ \E k \in DOMAIN file_list : Derived(k).raised # None)
    => /\ ret.raised \in {"ValueError", "IndexError"}
       /\ op = "build_byoc_tiles" => ret.value = <<>>
       /\ op = "ingest_tiles_to_collection" =>
            /\ calls = <<>>
            /\ locals.byoc_tiles = <<>>

\* An ingest into a collection raised for a file_list whose first keys are
\* well formed and whose date token fails later in the list.
C7_Witness ==
    /\ op = "ingest_tiles_to_collection"
    /\ byoc_collection # NoCollection
    /\ ret.raised = "ValueError"
    /\ Len(file_list) > 1
    /\ Derived(1).raised = None
    /\ \E k \in DOMAIN file_list : Derived(k).raised = "ValueError"
    /\ calls = <<>>

\* The number of tiles of a sequence whose status is among statuses.
CountStatus(tiles, statuses) ==
    Cardinality({i \in DOMAIN tiles : tiles[i].status \in statuses})

\* C6: the counts collection_tile_report returns for the tiles the catalog
\* gave have Total equal to the number of tiles and Ingested + Failed +
\* Pending = Total, Ingested the number of tiles with status INGESTED, Failed
\* the number with status FAILED, and Pending the number of all the others.
C6_CountsAddUp ==
    (op = "collection_tile_report" /\ ret.raised = None) =>
        /\ ret.value[1].Total = Len(locals.existing_tiles)
        /\ ret.value[1].Ingested + ret.value[1].Failed + ret.value[1].Pending
           = ret.value[1].Total
        /\ ret.value[1].Ingested = CountStatus(locals.existing_tiles, {"INGESTED"})
        /\ ret.value[1].Failed = CountStatus(locals.existing_tiles, {"FAILED"})
        /\ ret.value[1].Pending
           = Len(locals.existing_tiles)
             - CountStatus(locals.existing_tiles, {"INGESTED", "FAILED"})

\* A report over a tile that is neither INGESTED nor FAILED nor PENDING and a
\* tile that is INGESTED or FAILED.
C6_Witness ==
    /\ op = "collection_tile_report"
    /\ ret.raised = None
    /\ \E i \in DOMAIN locals.existing_tiles :
        locals.existing_tiles[i].status = "INGESTING"
    /\ ret.value[1].Pending >= 1
    /\ ret.value[1].Ingested + ret.value[1].Failed >= 1

\* The fields the claim requires of a band.
StatedFields ==
    {"name", "source", "bit_depth", "sample_format"}

\* A band-schema list with an entry that lacks a required field.
Deficient(band_information) ==
    /\ ~band_information.is_none
    /\ \E i \in DOMAIN band_information.list :
        ~(StatedFields \subseteq band_information.list[i])

\* C8: a create_byoc_collection given a band-schema list with an entry, at
\* any position, that lacks a required field raises ValueError with a message
\* that names the fields an entry lacks (those of the first such entry),
\* makes no call to the catalog, and leaves byoc_collection and the catalog
\* as they were.
C8_BadBandSchemaRejected ==
    [][(op' = "create_byoc_collection" /\ Deficient(args'.band_information)) =>
        /\ ret'.raised = "ValueError"
        /\ ret'.value # <<>>
        /\ \E i \in DOMAIN args'.band_information.list :
            /\ Range(ret'.value) = StatedFields \ args'.band_information.list[i]
            /\ \A j \in 1..(i - 1) :
                StatedFields \subseteq args'.band_information.list[j]
        /\ calls' = <<>>
        /\ byoc_collection' = byoc_collection
        /\ catalog' = catalog]_vars

\* A create_byoc_collection raised for a list whose first entry is complete
\* and whose later entry is not, while byoc_collection was a collection.
C8_Witness ==
    /\ op = "create_byoc_collection"
    /\ ret.raised = "ValueError"
    /\ byoc_collection # NoCollection
    /\ Len(args.band_information.list) > 1
    /\ StatedFields \subseteq args.band_information.list[1]
    /\ calls = <<>>

\* The ASCII upper-case letters and their lower-case letters.
UpperCase ==
    <<"A","B","C","D","E","F","G","H","I","J","K","L","M",
      "N","O","P","Q","R","S","T","U","V","W","X","Y","Z">>

LowerCase ==
    <<"a","b","c","d","e","f","g","h","i","j","k","l","m",
      "n","o","p","q","r","s","t","u","v","w","x","y","z">>

\* str.lower()
Lower(s) ==
    [i \in DOMAIN s |->
        IF s[i] \in Range(UpperCase)
        THEN LowerCase[CHOOSE n \in DOMAIN UpperCase : UpperCase[n] = s[i]]
        ELSE s[i]]

\* C9: when list_tiles returns, the set of the keys it returns is the set of
\* the keys of the bucket that start with base_path and end in ".tif" or
\* ".tiff" compared without regard to case.
C9_AllTiffsAnyCase ==
    (op = "list_tiles" /\ ret.raised = None) =>
        Range(ret.value)
        = {key \in Range(BucketObjects) :
            /\ StartsWith(key, args.base_path)
            /\ \/ EndsWith(Lower(key), <<".","t","i","f">>)
               \/ EndsWith(Lower(key), <<".","t","i","f","f">>)}

\* The keys a complete list_tiles of a base path returns.
CompleteListing(base_path) ==
    RunListing(Listing(base_path), 1, 0, <<>>).tiff_files

\* C10: a list_tiles in which a page fetch fails, the outer one or a nested
\* one, after any number of keys were collected, raises, returns no list
\* and leaves file_list as it was; file_list is never a partial listing.
C10_FailedListingKeepsFileList ==
    /\ [][(op' = "list_tiles" /\ ret'.raised # None) =>
            /\ ret'.raised = "ClientError"
            /\ ret'.value = None
            /\ file_list' = file_list]_vars
    /\ [](\/ file_list = <<>>
          \/ \E base_path \in BasePaths : file_list = CompleteListing(base_path))

\* A list_tiles raised after it had collected keys, while file_list held the
\* keys of an earlier listing.
C10_Witness ==
    /\ op = "list_tiles"
    /\ ret.raised = "ClientError"
    /\ locals.tiff_files # <<>>
    /\ file_list # <<>>
    /\ file_list # locals.tiff_files

====
